---- MODULE Spec2Model ----
(***************************************************************************)
(* A model of the linear_algebra repository: vector.py (class Vector) and  *)
(* line.py (classes Line and MyDecimal).  The program runs under Python    *)
(* 2.7; its numbers are decimal.Decimal values (context precision 30 once  *)
(* line.py is loaded) and IEEE doubles (math.sqrt, round, the tolerances). *)
(* Both are modelled exactly: a coefficient is a sequence of decimal       *)
(* digits, least significant first, so no value is cut to machine width.   *)
(***************************************************************************)
EXTENDS Integers, Sequences, FiniteSets, TLC

(***************************************************************************)
(* Every function of the model is called by name, through one recursive    *)
(* operator Call: F(x) stands for the call, F_body(x) for what the call    *)
(* computes.                                                               *)
(***************************************************************************)
RECURSIVE Call(_, _)

(***************************************************************************)
(* Unbounded naturals (Python long): digit sequences, units digit first,   *)
(* no leading zero; zero is the empty sequence.                            *)
(***************************************************************************)
Digit(a, i) == IF i <= Len(a) THEN a[i] ELSE 0

\* The sequence a function on 1..n gives, its elements computed once
AsTuple(f) == f \o <<>>

RECURSIVE Trim(_)
Trim(a) ==
  IF a = <<>> THEN a
  ELSE IF a[Len(a)] = 0 THEN Trim(SubSeq(a, 1, Len(a) - 1)) ELSE a

RECURSIVE NFromInt(_)
NFromInt(n) == IF n = 0 THEN <<>> ELSE <<n % 10>> \o NFromInt(n \div 10)

\* Columns lo..hi of (possibly negative or too large) integers to digits of
\* the base, with the carry c coming in: [d |-> the digits, c |-> the carry
\* going out].  The range is halved so that the depth of the evaluation
\* stays logarithmic.
RECURSIVE CarryRange(_, _, _, _, _)
CarryRange(cols, lo, hi, c, base) ==
  IF lo = hi
  THEN LET t == cols[lo] + c IN [d |-> <<t % base>>, c |-> t \div base]
  ELSE LET mid == (lo + hi) \div 2
           L == CarryRange(cols, lo, mid, c, base)
           R == CarryRange(cols, mid + 1, hi, L.c, base)
       IN [d |-> L.d \o R.d, c |-> R.c]

\* The number whose decimal columns are cols (its total is >= 0).
Carry(cols) == Call("Carry", <<cols>>)
Carry_body(cols) ==
  IF Len(cols) = 0 THEN <<>>
  ELSE LET r == CarryRange(cols, 1, Len(cols), 0, 10) IN Trim(r.d \o NFromInt(r.c))

MaxOf(m, n) == IF m >= n THEN m ELSE n

NAdd(a, b) == Call("NAdd", <<a, b>>)
NAdd_body(a, b) ==
  Carry(AsTuple([i \in 1..MaxOf(Len(a), Len(b)) |-> Digit(a, i) + Digit(b, i)]))

\* a - b for a >= b
NSub(a, b) ==
  Carry(AsTuple([i \in 1..MaxOf(Len(a), Len(b)) |-> Digit(a, i) - Digit(b, i)]))

\* Compare digits hi..lo, most significant first.
RECURSIVE NCmpRange(_, _, _, _)
NCmpRange(a, b, lo, hi) ==
  IF lo = hi THEN (IF a[lo] = b[lo] THEN 0 ELSE IF a[lo] < b[lo] THEN -1 ELSE 1)
  ELSE LET mid == (lo + hi) \div 2
           up == NCmpRange(a, b, mid + 1, hi)
       IN IF up # 0 THEN up ELSE NCmpRange(a, b, lo, mid)

\* -1, 0, 1 as a < b, a = b, a > b
NCmp(a, b) == Call("NCmp", <<a, b>>)
NCmp_body(a, b) ==
  IF Len(a) # Len(b) THEN (IF Len(a) < Len(b) THEN -1 ELSE 1)
  ELSE IF Len(a) = 0 THEN 0 ELSE NCmpRange(a, b, 1, Len(a))

\* Sum over i in lo..hi of a[i] * b[k + 1 - i]
RECURSIVE ColSum(_, _, _, _, _)
ColSum(a, b, k, lo, hi) ==
  IF lo > hi THEN 0
  ELSE IF lo = hi THEN a[lo] * b[k + 1 - lo]
  ELSE LET mid == (lo + hi) \div 2
       IN ColSum(a, b, k, lo, mid) + ColSum(a, b, k, mid + 1, hi)

\* The digits of a taken three at a time (the number in base 1000), and back
Limbs(a) == Call("Limbs", <<a>>)
Limbs_body(a) ==
  AsTuple([j \in 1..((Len(a) + 2) \div 3) |->
             Digit(a, 3 * j - 2) + 10 * Digit(a, 3 * j - 1) + 100 * Digit(a, 3 * j)])
LimbDigit(g, i) ==
  LET t == g[(i + 2) \div 3]
  IN IF i % 3 = 1 THEN t % 10 ELSE IF i % 3 = 2 THEN (t \div 10) % 10 ELSE t \div 100
FromLimbs(g) == Trim(AsTuple([i \in 1..(3 * Len(g)) |-> LimbDigit(g, i)]))

\* a * b, by the schoolbook columns in base 1000
NMul(a, b) == Call("NMul", <<a, b>>)
NMul_body(a, b) ==
  IF a = <<>> \/ b = <<>> THEN <<>>
  ELSE LET la == Limbs(a)
           lb == Limbs(b)
           cols == AsTuple([k \in 1..(Len(la) + Len(lb) - 1) |->
                              ColSum(la, lb, k, MaxOf(1, k + 1 - Len(lb)),
                                     IF k < Len(la) THEN k ELSE Len(la))])
           r == CarryRange(cols, 1, Len(cols), 0, 1000)
       IN FromLimbs(r.d \o <<r.c>>)

\* Small factor times a: one pass of carries.
NMulSmall(a, m) == Carry(AsTuple([i \in 1..Len(a) |-> a[i] * m]))

\* a * 10^k
NShift(a, k) == IF a = <<>> THEN a ELSE [i \in 1..k |-> 0] \o a

\* <<1 * b, ..., 9 * b>>
Multiples(b) ==
  <<b, NMulSmall(b, 2), NMulSmall(b, 3), NMulSmall(b, 4), NMulSmall(b, 5),
    NMulSmall(b, 6), NMulSmall(b, 7), NMulSmall(b, 8), NMulSmall(b, 9)>>

\* How often b fits into r (r < 10*b): <<the quotient digit, the rest>>,
\* by the multiples mb of b.
QDigit(r, mb) == Call("QDigit", <<r, mb>>)
QDigit_body(r, mb) ==
  LET d == CHOOSE j \in 0..9 : /\ j = 0 \/ NCmp(mb[j], r) <= 0
                               /\ j = 9 \/ NCmp(mb[j + 1], r) > 0
  IN <<d, IF d = 0 THEN r ELSE NSub(r, mb[d])>>

\* Long division over the digits hi..lo of a, most significant first, with
\* the rest r so far: [q |-> quotient digits (units first), r |-> the rest].
RECURSIVE DivRange(_, _, _, _, _)
DivRange(a, mb, lo, hi, r) ==
  IF lo = hi
  THEN LET qd == QDigit(Trim(<<a[lo]>> \o r), mb) IN [q |-> <<qd[1]>>, r |-> qd[2]]
  ELSE LET mid == (lo + hi) \div 2
           U == DivRange(a, mb, mid + 1, hi, r)
           L == DivRange(a, mb, lo, mid, U.r)
       IN \* the upper digits are divided first: their rest enters the lower ones
          IF Len(U.q) > 0 THEN [q |-> L.q \o U.q, r |-> L.r] ELSE [q |-> <<>>, r |-> <<>>]

\* <<quotient, remainder>> of a by b, b > 0
NDivMod(a, b) == Call("NDivMod", <<a, b>>)
NDivMod_body(a, b) ==
  IF NCmp(a, b) < 0 THEN <<<<>>, a>>
  ELSE LET res == DivRange(a, Multiples(b), 1, Len(a), <<>>) IN <<Trim(res.q), res.r>>

\* Division by a small integer m over the digits hi..lo of a, with the rest
\* r so far: [q |-> quotient digits (units first), r |-> the rest]
RECURSIVE DivSmallRange(_, _, _, _, _)
DivSmallRange(a, m, lo, hi, r) ==
  IF lo = hi
  THEN LET t == 10 * r + a[lo] IN [q |-> <<t \div m>>, r |-> t % m]
  ELSE LET mid == (lo + hi) \div 2
           U == DivSmallRange(a, m, mid + 1, hi, r)
           L == DivSmallRange(a, m, lo, mid, U.r)
       IN IF U.r >= 0 THEN [q |-> L.q \o U.q, r |-> L.r] ELSE [q |-> <<>>, r |-> 0]

\* <<quotient, remainder>> of a by the integer m, 0 < m <= 1000
NDivModSmall(a, m) == Call("NDivModSmall", <<a, m>>)
NDivModSmall_body(a, m) ==
  IF a = <<>> THEN <<a, 0>>
  ELSE LET res == DivSmallRange(a, m, 1, Len(a), 0) IN <<Trim(res.q), res.r>>

NIsOdd(a) == a # <<>> /\ a[1] % 2 = 1

\* <<b^lo, ..., b^hi>> given first = b^lo (b a small integer)
RECURSIVE PowRange(_, _, _, _)
PowRange(b, lo, hi, first) ==
  IF lo = hi THEN <<first>>
  ELSE LET mid == (lo + hi) \div 2
           L == PowRange(b, lo, mid, first)
       IN L \o PowRange(b, mid + 1, hi, NMulSmall(L[Len(L)], b))

\* The powers of two and five the doubles of the model need, computed once.
MaxPow == 200
Pow2Table == PowRange(2, 0, MaxPow, <<1>>)
Pow5Table == PowRange(5, 0, MaxPow, <<1>>)
Pow2(k) == Pow2Table[k + 1]
Pow5(k) == Pow5Table[k + 1]

(***************************************************************************)
(* decimal.Decimal.  A value is (-1)^sign * coef * 10^exp with coef a      *)
(* natural; values are kept canonical (no trailing zero in coef, zero is   *)
(* 0 * 10^0), so that record equality is Decimal's numeric equality.       *)
(* Every arithmetic result is rounded to the context: Prec significant     *)
(* digits, ROUND_HALF_EVEN (the decimal module's defaults).                *)
(***************************************************************************)
Prec == 30

DZero == [sign |-> 0, coef |-> <<>>, exp |-> 0]

\* Number of low-order zero digits of a nonzero coefficient
LowZeros(c) == (CHOOSE i \in 1..Len(c) : c[i] # 0 /\ \A j \in 1..(i - 1) : c[j] = 0) - 1

DCanon(s, c, e) ==
  IF c = <<>> THEN DZero
  ELSE LET z == LowZeros(c)
       IN [sign |-> s, coef |-> SubSeq(c, z + 1, Len(c)), exp |-> e + z]

\* c cut to its upper Len(c) - k digits, the k lower ones rounded half-even
RoundOff(c, k) ==
  LET kept == SubSeq(c, k + 1, Len(c))
      top  == c[k]
      rest == \E j \in 1..(k - 1) : c[j] # 0
      up   == top > 5 \/ (top = 5 /\ (rest \/ NIsOdd(kept)))
  IN IF up THEN NAdd(kept, <<1>>) ELSE kept

\* Decimal._fix: the context's rounding of an exact result
DFix(s, c, e) == Call("DFix", <<s, c, e>>)
DFix_body(s, c, e) ==
  IF Len(c) <= Prec THEN DCanon(s, c, e)
  ELSE DCanon(s, RoundOff(c, Len(c) - Prec), e + (Len(c) - Prec))

DInt(n) == IF n < 0 THEN DCanon(1, NFromInt(0 - n), 0) ELSE DCanon(0, NFromInt(n), 0)

\* n * 10^e for a small integer n: the Decimal a literal such as '8E-11' denotes
DLit(n, e) == IF n < 0 THEN DCanon(1, NFromInt(0 - n), e) ELSE DCanon(0, NFromInt(n), e)

DIsZero(a) == a.coef = <<>>
DNeg(a) == IF DIsZero(a) THEN a ELSE [a EXCEPT !.sign = 1 - a.sign]
DAbs(a) == [a EXCEPT !.sign = 0]

MinOf(m, n) == IF m <= n THEN m ELSE n

\* The coefficient of a at the exponent e <= a.exp
CoefAt(a, e) == NShift(a.coef, a.exp - e)

\* -1, 0, 1 by the exact values
DCmp(a, b) == Call("DCmp", <<a, b>>)
DCmp_body(a, b) ==
  IF a.sign # b.sign THEN (IF a.sign = 1 THEN -1 ELSE 1)
  ELSE LET e == MinOf(a.exp, b.exp)
           m == NCmp(CoefAt(a, e), CoefAt(b, e))
       IN IF a.sign = 1 THEN 0 - m ELSE m

DLess(a, b) == DCmp(a, b) < 0

\* Decimal.__add__
DAdd(a, b) == Call("DAdd", <<a, b>>)
DAdd_body(a, b) ==
  LET e  == MinOf(a.exp, b.exp)
      ca == CoefAt(a, e)
      cb == CoefAt(b, e)
  IN IF a.sign = b.sign THEN DFix(a.sign, NAdd(ca, cb), e)
     ELSE IF NCmp(ca, cb) >= 0 THEN DFix(a.sign, NSub(ca, cb), e)
     ELSE DFix(b.sign, NSub(cb, ca), e)

\* Decimal.__sub__
DSub(a, b) == DAdd(a, DNeg(b))

\* Decimal.__mul__
DMul(a, b) == Call("DMul", <<a, b>>)
DMul_body(a, b) ==
  DFix((a.sign + b.sign) % 2, NMul(a.coef, b.coef), a.exp + b.exp)

\* Decimal.__truediv__ for a nonzero divisor: the quotient to Prec + 1 digits,
\* made sticky when inexact, then rounded by the context.
DDiv(a, b) ==
  IF DIsZero(a) THEN DZero
  ELSE
    LET shift == Len(b.coef) - Len(a.coef) + Prec + 1
        qr == IF shift >= 0 THEN NDivMod(NShift(a.coef, shift), b.coef)
              ELSE NDivMod(a.coef, NShift(b.coef, 0 - shift))
        q  == IF qr[2] # <<>> /\ Digit(qr[1], 1) % 5 = 0 THEN NAdd(qr[1], <<1>>) ELSE qr[1]
    IN DFix((a.sign + b.sign) % 2, q, a.exp - b.exp - shift)

(***************************************************************************)
(* Python float (IEEE double): (-1)^fs * fm * 2^fe with fm in              *)
(* [2^52, 2^53), or zero.  Results are rounded to nearest, ties to even.   *)
(* The model's values stay far from the subnormal and overflow ranges.     *)
(***************************************************************************)
FZero == [fs |-> 0, fm |-> <<>>, fe |-> 0]
FIsZero(f) == f.fm = <<>>

\* floor(log2(q)) for a natural q with lo <= floor(log2(q)) <= hi
BitLen(q, lo, hi) ==
  CHOOSE j \in lo..hi : NCmp(Pow2(j), q) <= 0 /\ NCmp(q, Pow2(j + 1)) < 0

\* <<floor(a / D), a mod D>>; with k10 >= 0 the divisor D is 10^k10
DivBy(a, D, k10) ==
  IF k10 >= 0 THEN <<SubSeq(a, k10 + 1, Len(a)), Trim(SubSeq(a, 1, MinOf(k10, Len(a))))>>
  ELSE NDivMod(a, D)

\* The double with mantissa m in [2^52, 2^53] and exponent e
FPack(s, m, e) ==
  IF m = Pow2(53) THEN [fs |-> s, fm |-> Pow2(52), fe |-> e + 1]
  ELSE [fs |-> s, fm |-> m, fe |-> e]

\* The double of sign s for the quotient qr[1] (of 53 + extra bits) and the
\* rest qr[2] of a division by den, scaled by 2^(0 - s0): hl is qr[1] split
\* into its upper 53 bits and the extra lower ones, which are rounded off
FFromParts(s, qr, den, s0, extra, hl) ==
  LET half == 2 ^ (extra - 1)
      h == IF hl[2] < half THEN -1 ELSE IF hl[2] > half THEN 1 ELSE 0
      c == IF extra = 0 THEN NCmp(NAdd(qr[2], qr[2]), den)
           ELSE IF h # 0 THEN h ELSE IF qr[2] # <<>> THEN 1 ELSE 0
  IN FPack(s, IF c > 0 \/ (c = 0 /\ NIsOdd(hl[1])) THEN NAdd(hl[1], <<1>>) ELSE hl[1],
           extra - s0)

FFromBits(s, qr, den, s0, extra) ==
  FFromParts(s, qr, den, s0, extra, NDivModSmall(qr[1], 2 ^ extra))

FFromQuotient(s, qr, den, s0) ==
  FFromBits(s, qr, den, s0, BitLen(qr[1], 52, 60) - 52)

\* The double nearest to N / D for naturals N, D > 0 (D = 10^k10 when k10 >= 0)
FFromRatio(s, N, D, k10) == Call("FFromRatio", <<s, N, D, k10>>)
FFromRatio_body(s, N, D, k10) ==
  LET L0 == ((Len(N) - Len(D) - 1) * 3322) \div 1000  \* 2^L0 <= N/D < 2^(L0 + 8)
      s0 == 52 - L0
  IN IF s0 >= 0 THEN FFromQuotient(s, DivBy(NMul(N, Pow2(s0)), D, k10), D, s0)
     ELSE FFromQuotient(s, NDivMod(N, NMul(D, Pow2(0 - s0))), NMul(D, Pow2(0 - s0)), s0)

\* float(d) for a Decimal d (Decimal.__float__: the correctly rounded value)
FFromDecimal(d) == Call("FFromDecimal", <<d>>)
FFromDecimal_body(d) ==
  IF DIsZero(d) THEN FZero
  ELSE IF d.exp >= 0 THEN FFromRatio(d.sign, NShift(d.coef, d.exp), <<1>>, 0)
  ELSE FFromRatio(d.sign, d.coef, NShift(<<1>>, 0 - d.exp), 0 - d.exp)

\* Decimal(f) for a float f (Decimal.from_float: exact, not rounded)
FToDecimal(f) == Call("FToDecimal", <<f>>)
FToDecimal_body(f) ==
  IF FIsZero(f) THEN DZero
  ELSE IF f.fe >= 0 THEN DCanon(f.fs, NMul(f.fm, Pow2(f.fe)), 0)
  ELSE DCanon(f.fs, NMul(f.fm, Pow5(0 - f.fe)), f.fe)

\* m extended by those of the bits hi..lo (most significant first) that keep
\* m * m <= Y: the integer square root, bit by bit.  The range is halved so
\* that the depth of the evaluation stays logarithmic.
RECURSIVE SqrtBits(_, _, _, _)
SqrtBits(Y, m, lo, hi) ==
  IF Len(m) = 0 THEN m    \* (never: m >= 2^52; m is computed before the bits below it)
  ELSE IF lo = hi
  THEN LET cand == NAdd(m, Pow2(lo))
       IN IF NCmp(NMul(cand, cand), Y) <= 0 THEN cand ELSE m
  ELSE LET mid == (lo + hi) \div 2
       IN SqrtBits(Y, SqrtBits(Y, m, mid + 1, hi), lo, mid)

\* The double m * 2^e or (m + 1) * 2^e, whichever is nearer to sqrt(Y) * 2^e,
\* for m the integer square root of Y
FSqrtRounded(Y, m, e) ==
  FPack(0, IF NCmp(NSub(Y, NMul(m, m)), m) > 0 THEN NAdd(m, <<1>>) ELSE m, e)

FSqrtScaled(Y, e) == FSqrtRounded(Y, SqrtBits(Y, Pow2(52), 0, 51), e)

\* math.sqrt(f) for f >= 0: the correctly rounded root
FSqrt(f) == Call("FSqrt", <<f>>)
FSqrt_body(f) ==
  IF FIsZero(f) THEN FZero
  ELSE LET k == IF (f.fe - 52) % 2 = 0 THEN 52 ELSE 53
       IN FSqrtScaled(NMul(f.fm, Pow2(k)), (f.fe - k) \div 2)

\* round(f, nd), Python 2: the exact value rounded to nd decimal places,
\* halves away from zero, and the double nearest to that
FRound(f, nd) == Call("FRound", <<f, nd>>)
FRound_body(f, nd) ==
  LET x == FToDecimal(f)
      k == (0 - nd) - x.exp
  IN IF FIsZero(f) \/ k <= 0 THEN f
     ELSE IF k > Len(x.coef) THEN FZero
     ELSE LET kept == SubSeq(x.coef, k + 1, Len(x.coef))
              r == IF x.coef[k] >= 5 THEN NAdd(kept, <<1>>) ELSE kept
          IN FFromDecimal(DCanon(x.sign, r, 0 - nd))

\* 1 / f for f # 0
FRecip(f) ==
  IF f.fe < 0 THEN FFromRatio(f.fs, Pow2(0 - f.fe), f.fm, 0 - 1)
  ELSE FFromRatio(f.fs, <<1>>, NMul(f.fm, Pow2(f.fe)), 0 - 1)

(***************************************************************************)
(* Python values and the outcome of a call.  A call either returns a value *)
(* or raises an exception of a class with a message (str(e)).              *)
(***************************************************************************)
None == [cls |-> "NoneType"]
Bool(b) == [cls |-> "bool", b |-> b]
List(xs) == [cls |-> "list", items |-> xs]

Return(x) == [raised |-> FALSE, value |-> x]
Raise(e, m) == [raised |-> TRUE, exc |-> e, msg |-> m]

\* issubclass(e, c) for the exception classes the program meets
IsSubclass(e, c) ==
  \/ e = c
  \/ c = "Exception"
  \/ c = "ZeroDivisionError" /\ e = "DivisionByZero"

\* The messages the classes define (vector.py lines 12-15, line.py line 11)
CANNOT_NORMALIZE_ZERO_VECTOR_MSG == "Cannot normalize the zero vector"
NO_UNIQUE_ORTHOGONAL_COMPONENT_MSG == "No unique orthogonal component"
NO_UNIQUE_PARALLEL_COMPONENT_MSG == "No unique parallel component"
ONLY_DEFINED_IN_TWO_THREE_DIMS_MSG == "Only defined in two or three dimensions"
NO_NONZERO_ELTS_FOUND_MSG == "No nonzero elements found"

\* The default tolerance of is_zero, is_orthogonal_to and is_near_zero: the
\* float literal 1e-10, which is the double nearest to 10^-10.  A Decimal or
\* a float is compared with it by the exact values.
Tolerance == FFromDecimal(DLit(1, 0 - 10))
ToleranceExact == FToDecimal(Tolerance)

\* Decimal(c) for c a Decimal or a float
ToDecimal(c) == IF "fm" \in DOMAIN c THEN FToDecimal(c) ELSE c

\* a / b on Decimals: a zero divisor raises (the context traps the signal)
Decimal_div(a, b) == Call("Decimal_div", <<a, b>>)
Decimal_div_body(a, b) ==
  IF DIsZero(b)
  THEN IF DIsZero(a) THEN Raise("InvalidOperation", "0 / 0")
       ELSE Raise("DivisionByZero", "x / 0")
  ELSE Return(DDiv(a, b))

\* sum(xs): 0 + xs[1] + ... + xs[n], each addition rounded by the context
RECURSIVE SumUpTo(_, _)
SumUpTo(xs, n) == IF n = 0 THEN DZero ELSE DAdd(SumUpTo(xs, n - 1), xs[n])
Sum(xs) == SumUpTo(xs, Len(xs))

\* zip(xs, ys): as long as the shorter of the two
ZipLen(xs, ys) == MinOf(Len(xs), Len(ys))

(***************************************************************************)
(* The inputs of the model.  Coordinates of the vectors: 0 and 1, in       *)
(* dimensions 1 to MaxDim.  Coefficients of the lines: the integers -1 to  *)
(* MaxCoord, and 8E-11, a coefficient below the tolerance.                 *)
(* Constant terms: 0, 1E-12 and 5.                                         *)
(***************************************************************************)
MaxDim == 4
MaxCoord == 3

RECURSIVE TuplesOf(_, _)
TuplesOf(S, n) ==
  IF n = 1 THEN {<<x>> : x \in S}
  ELSE {Append(t, x) : t \in TuplesOf(S, n - 1), x \in S}

(***************************************************************************)
(* class Vector (vector.py)                                                *)
(***************************************************************************)
\* Vector(coordinates) for a list or tuple of numbers
Vector_init(coordinates) ==
  IF Len(coordinates) = 0 THEN Raise("ValueError", "The coordinates must be nonempty")
  ELSE Return([cls |-> "Vector", coordinates |-> coordinates,
               dimension |-> Len(coordinates)])

VectorCoords == {DZero, DInt(1)}
Vectors ==
  UNION {{Vector_init(t).value : t \in TuplesOf(VectorCoords, d)} : d \in 1..MaxDim}

LineCoords == {DInt(k) : k \in (0 - 1)..MaxCoord} \cup {DLit(8, 0 - 11)}
NormalVectors == {Vector_init(t).value : t \in TuplesOf(LineCoords, 2)}
ConstantTerms == {DZero, DLit(1, 0 - 12), DInt(5)}

\* magnitude, is_zero and normalized depend on the vector alone: they are
\* evaluated once for each vector of the model
KnownVectors == Vectors \cup NormalVectors

\* x ** 2 is exact here (the square of a coordinate fits the context)
magnitude_body(v) ==
  FSqrt(FFromDecimal(Sum([i \in 1..Len(v.coordinates) |->
                            DMul(v.coordinates[i], v.coordinates[i])])))
magnitude_table == [v \in KnownVectors |-> magnitude_body(v)]
magnitude(v) == Call("magnitude", <<v>>)

is_zero_body(v) == DLess(FToDecimal(magnitude(v)), ToleranceExact)
is_zero_table == [v \in KnownVectors |-> is_zero_body(v)]
is_zero(v) == Call("is_zero", <<v>>)

times_scalar(v, c) == Call("times_scalar", <<v, c>>)
times_scalar_body(v, c) ==
  List([i \in 1..Len(v.coordinates) |-> DMul(ToDecimal(c), v.coordinates[i])])

plus(v, w) == Call("plus", <<v, w>>)
plus_body(v, w) ==
  List([i \in 1..ZipLen(v.coordinates, w.coordinates) |->
          DAdd(v.coordinates[i], w.coordinates[i])])

minus(v, w) == Call("minus", <<v, w>>)
minus_body(v, w) ==
  List([i \in 1..ZipLen(v.coordinates, w.coordinates) |->
          DSub(v.coordinates[i], w.coordinates[i])])

dot(v, w) == Call("dot", <<v, w>>)
dot_body(v, w) ==
  Sum([i \in 1..ZipLen(v.coordinates, w.coordinates) |->
         DMul(v.coordinates[i], w.coordinates[i])])

is_orthogonal_to(v, w) == Call("is_orthogonal_to", <<v, w>>)
is_orthogonal_to_body(v, w) == DLess(DAbs(dot(v, w)), ToleranceExact)

\* normalized: the handler of the ZeroDivisionError names a global that does
\* not exist (the message is a class attribute), which raises NameError
normalized_body(v) ==
  LET d == Decimal_div(DLit(1, 0), FToDecimal(magnitude(v)))
  IN IF d.raised
     THEN IF IsSubclass(d.exc, "ZeroDivisionError")
          THEN Raise("NameError",
                     "global name 'CANNOT_NORMALIZE_ZERO_VECTOR_MSG' is not defined")
          ELSE d
     ELSE Vector_init(times_scalar(v, d.value).items)
normalized_table == [v \in KnownVectors |-> normalized_body(v)]
normalized(v) == Call("normalized", <<v>>)

\* x_1, y_1, z_1 = coordinates: the ValueError of a tuple of another length
Unpack3(coordinates) ==
  IF Len(coordinates) = 3 THEN Return(coordinates)
  ELSE IF Len(coordinates) > 3 THEN Raise("ValueError", "too many values to unpack")
  ELSE IF Len(coordinates) = 2 THEN Raise("ValueError", "need more than 2 values to unpack")
  ELSE IF Len(coordinates) = 1 THEN Raise("ValueError", "need more than 1 value to unpack")
  ELSE Raise("ValueError", "need more than 0 values to unpack")

\* cross: the two-dimensional branch embeds self and then calls vector(...),
\* a name that is not defined (the class is Vector)
cross(v, w) == Call("cross", <<v, w>>)
cross_body(v, w) ==
  LET a == Unpack3(v.coordinates)
      b == Unpack3(w.coordinates)
      e == IF a.raised THEN a ELSE b
  IN IF ~a.raised /\ ~b.raised
     THEN LET x_1 == a.value[1]
              y_1 == a.value[2]
              z_1 == a.value[3]
              x_2 == b.value[1]
              y_2 == b.value[2]
              z_2 == b.value[3]
          IN Vector_init(<<DSub(DMul(y_1, z_2), DMul(y_2, z_1)),
                           DNeg(DSub(DMul(x_1, z_2), DMul(x_2, z_1))),
                           DSub(DMul(x_1, y_2), DMul(x_2, y_1))>>)
     ELSE IF e.msg = "need more than 2 values to unpack"
          THEN LET self_embedded == Vector_init(v.coordinates \o <<DZero>>)
               IN IF self_embedded.raised THEN self_embedded
                  ELSE Raise("NameError", "global name 'vector' is not defined")
          ELSE IF e.msg = "too many values to unpack"
                  \/ e.msg = "need more than 1 value to unpack"
               THEN Raise("Exception", ONLY_DEFINED_IN_TWO_THREE_DIMS_MSG)
               ELSE e

component_parallel_to(v, basis) == Call("component_parallel_to", <<v, basis>>)
component_parallel_to_body(v, basis) ==
  LET u == normalized(basis)
  IN IF u.raised
     THEN IF u.msg = CANNOT_NORMALIZE_ZERO_VECTOR_MSG
          THEN Raise("Exception", NO_UNIQUE_PARALLEL_COMPONENT_MSG)
          ELSE u
     ELSE Return(times_scalar(u.value, dot(v, u.value)))

component_orthogonal_to(v, basis) == Call("component_orthogonal_to", <<v, basis>>)
component_orthogonal_to_body(v, basis) ==
  LET c == component_parallel_to(v, basis)
      projection == IF c.raised THEN c ELSE Vector_init(c.value.items)
  IN IF projection.raised
     THEN IF projection.msg = NO_UNIQUE_PARALLEL_COMPONENT_MSG
          THEN Raise("Exception", NO_UNIQUE_ORTHOGONAL_COMPONENT_MSG)
          ELSE projection
     ELSE Return(minus(v, projection.value))

\* The body of the try of angle_with: acos(round(u1.dot(u2), 4)).  The angle
\* is kept as the rounded cosine it is the arc cosine of.
FOne == FFromDecimal(DInt(1))
FMinusOne == FFromDecimal(DInt(0 - 1))
angle_with_try(v, w, in_degrees) == Call("angle_with_try", <<v, w, in_degrees>>)
angle_with_try_body(v, w, in_degrees) ==
  LET u1 == normalized(v)
      u2 == IF u1.raised THEN u1 ELSE normalized(w)
  IN IF u2.raised THEN u2
     ELSE LET c == FRound(FFromDecimal(dot(u1.value, u2.value)), 4)
          IN IF DLess(DInt(1), DAbs(FToDecimal(c)))
             THEN Raise("ValueError", "math domain error")
             ELSE Return([cls |-> "float", acos_of |-> c, in_degrees |-> in_degrees])

\* angle_with: the handler prints the exception, raises only for the message
\* of the zero vector, and otherwise falls off the end of the method
angle_with(v, w, in_degrees) == Call("angle_with", <<v, w, in_degrees>>)
angle_with_body(v, w, in_degrees) ==
  LET t == angle_with_try(v, w, in_degrees)
  IN IF t.raised
     THEN IF t.msg = CANNOT_NORMALIZE_ZERO_VECTOR_MSG
          THEN Raise("Exception", "Cannot compute an angle with the zero vector")
          ELSE Return(None)
     ELSE t

\* What angle_with writes to the standard output
angle_with_prints(v, w, in_degrees) == Call("angle_with_prints", <<v, w, in_degrees>>)
angle_with_prints_body(v, w, in_degrees) ==
  LET t == angle_with_try(v, w, in_degrees)
  IN IF t.raised THEN <<t.msg>> ELSE <<>>

\* angle == 0 and angle == pi: acos is 0 at 1.0 only and pi at -1.0 only
AngleEquals0(a) == a # None /\ a.acos_of = FOne
AngleEqualsPi(a) == a # None /\ a.acos_of = FMinusOne

Vector_is_parallel_to_body(v, w) ==
  IF is_zero(v) \/ is_zero(w) THEN Return(Bool(TRUE))
  ELSE LET a == angle_with(v, w, FALSE)
       IN IF a.raised THEN a
          ELSE Return(Bool(AngleEquals0(a.value) \/ AngleEqualsPi(a.value)))

\* The test depends on the two vectors alone: it is evaluated once for each
\* pair of normal vectors of the model
KnownPairs == {<<v, w>> : v \in NormalVectors, w \in NormalVectors}
Vector_is_parallel_to_table == [p \in KnownPairs |-> Vector_is_parallel_to_body(p[1], p[2])]
Vector_is_parallel_to(v, w) == Call("Vector_is_parallel_to", <<v, w>>)

(***************************************************************************)
(* classes Line and MyDecimal (line.py)                                    *)
(***************************************************************************)
\* A variant of is_near_zero that forgets the absolute value
is_near_zero_signed(d) == DLess(d, ToleranceExact)

\* MyDecimal.is_near_zero: abs(self) < eps
is_near_zero(d) == Call("is_near_zero", <<d>>)
is_near_zero_body(d) == DLess(DAbs(d), ToleranceExact)

\* A variant of first_nonzero_index that finds the last such item
last_nonzero_index(iterable) ==
  IF \E k \in 1..Len(iterable) : ~is_near_zero(iterable[k])
  THEN Return((CHOOSE k \in 1..Len(iterable) :
                 /\ ~is_near_zero(iterable[k])
                 /\ \A j \in (k + 1)..Len(iterable) : is_near_zero(iterable[j])) - 1)
  ELSE Raise("Exception", NO_NONZERO_ELTS_FOUND_MSG)

\* Line.first_nonzero_index: the (0-based) index of the first item that is
\* not near zero
first_nonzero_index(iterable) == Call("first_nonzero_index", <<iterable>>)
first_nonzero_index_body(iterable) ==
  IF \E k \in 1..Len(iterable) : ~is_near_zero(iterable[k])
  THEN Return((CHOOSE k \in 1..Len(iterable) :
                 /\ ~is_near_zero(iterable[k])
                 /\ \A j \in 1..(k - 1) : is_near_zero(iterable[j])) - 1)
  ELSE Raise("Exception", NO_NONZERO_ELTS_FOUND_MSG)

\* Line.set_basepoint: the outcome holds the value of self.basepoint
set_basepoint(normal_vector, constant_term, dimension) == Call("set_basepoint", <<normal_vector, constant_term, dimension>>)
set_basepoint_body(normal_vector, constant_term, dimension) ==
  LET initial_index == first_nonzero_index(normal_vector.coordinates)
  IN IF initial_index.raised
     THEN IF initial_index.msg = NO_NONZERO_ELTS_FOUND_MSG THEN Return(None)
          ELSE initial_index
     ELSE IF initial_index.value >= dimension
     THEN Raise("IndexError", "list assignment index out of range")
     ELSE LET q == Decimal_div(constant_term,
                               normal_vector.coordinates[initial_index.value + 1])
          IN IF q.raised THEN q
             ELSE Vector_init([k \in 1..dimension |->
                                 IF k = initial_index.value + 1 THEN q.value ELSE DZero])

\* Line(normal_vector, constant_term); None stands for an omitted argument
Line_init_body(normal_vector, constant_term) ==
  LET dimension == 2
      n == IF normal_vector = None
           THEN Vector_init([k \in 1..dimension |-> DZero]).value
           ELSE normal_vector
      c == IF constant_term = None THEN DZero ELSE constant_term
      basepoint == set_basepoint(n, c, dimension)
  IN IF basepoint.raised THEN basepoint
     ELSE Return([cls |-> "Line", dimension |-> dimension, normal_vector |-> n,
                  constant_term |-> c, basepoint |-> basepoint.value])

\* The arguments of a construction: a normal vector and a constant term, or
\* both omitted
LineArguments ==
  {<<n, c>> : n \in NormalVectors, c \in ConstantTerms} \cup {<<None, None>>}

\* evaluated once for each pair of arguments of the model
Line_init_table == [a \in LineArguments |-> Line_init_body(a[1], a[2])]
Line_init(normal_vector, constant_term) == Call("Line_init", <<normal_vector, constant_term>>)

\* Two constructions in turn, as lines 161-162 of line.py: the two objects
\* (None for one that was not constructed) and the outcome of the last call
Line_init_both(args_self, args_other) == Call("Line_init_both", <<args_self, args_other>>)
Line_init_both_body(args_self, args_other) ==
  LET first == Line_init(args_self[1], args_self[2])
      second == IF first.raised THEN first ELSE Line_init(args_other[1], args_other[2])
  IN [first |-> IF first.raised THEN None ELSE first.value,
      second |-> IF second.raised THEN None ELSE second.value,
      outcome |-> second]

\* A, B = coordinates
Unpack2(coordinates) ==
  IF Len(coordinates) = 2 THEN Return(coordinates)
  ELSE IF Len(coordinates) > 2 THEN Raise("ValueError", "too many values to unpack")
  ELSE Raise("ValueError", "need more than 1 value to unpack")

\* A*D - B*C
Determinant(p, q) == DSub(DMul(p[1], q[2]), DMul(p[2], q[1]))

\* 1/round(det, 10): round gives a float, and 1/0.0 raises
one_over_denom_body(det) ==
  LET r == FRound(FFromDecimal(det), 10)
  IN IF FIsZero(r) THEN Raise("ZeroDivisionError", "float division by zero")
     ELSE Return(FRecip(r))

\* evaluated once for each determinant of two normal vectors of the model
KnownDeterminants ==
  {Determinant(p.coordinates, q.coordinates) : p \in NormalVectors, q \in NormalVectors}
one_over_denom_table == [det \in KnownDeterminants |-> one_over_denom_body(det)]
one_over_denom(det) == Call("one_over_denom", <<det>>)

Line_is_parallel_to(self, ell) == Call("Line_is_parallel_to", <<self, ell>>)
Line_is_parallel_to_body(self, ell) ==
  Vector_is_parallel_to(self.normal_vector, ell.normal_vector)

\* Line.__eq__: in the last branch the difference of the basepoints is the
\* list that minus returns, which has no method is_orthogonal_to
Line_eq(self, ell) == Call("Line_eq", <<self, ell>>)
Line_eq_body(self, ell) ==
  IF is_zero(self.normal_vector)
  THEN IF ~is_zero(ell.normal_vector) THEN Return(Bool(FALSE))
       ELSE Return(Bool(is_near_zero(DSub(self.constant_term, ell.constant_term))))
  ELSE IF is_zero(ell.normal_vector) THEN Return(Bool(FALSE))
  ELSE LET parallel == Line_is_parallel_to(self, ell)
       IN IF parallel.raised THEN parallel
          ELSE IF ~parallel.value.b THEN Return(Bool(FALSE))
          ELSE IF self.basepoint = None
          THEN Raise("AttributeError", "'NoneType' object has no attribute 'minus'")
          ELSE IF ell.basepoint = None
          THEN Raise("AttributeError", "'NoneType' object has no attribute 'coordinates'")
          ELSE LET basepoint_difference == minus(self.basepoint, ell.basepoint)
               IN IF basepoint_difference.cls = "Vector"
                  THEN Return(Bool(is_orthogonal_to(basepoint_difference,
                                                    self.normal_vector)))
                  ELSE Raise("AttributeError",
                             "'list' object has no attribute 'is_orthogonal_to'")

\* Line.intersection_with
intersection_with(self, ell) == Call("intersection_with", <<self, ell>>)
intersection_with_body(self, ell) ==
  LET p == Unpack2(self.normal_vector.coordinates)
      q == IF p.raised THEN p ELSE Unpack2(ell.normal_vector.coordinates)
  IN IF q.raised THEN q
     ELSE LET A == p.value[1]
              B == p.value[2]
              C == q.value[1]
              D == q.value[2]
              k1 == self.constant_term
              k2 == ell.constant_term
              x_numerator == DSub(DMul(D, k1), DMul(B, k2))
              y_numerator == DAdd(DMul(DNeg(C), k1), DMul(A, k2))
              t == one_over_denom(Determinant(p.value, q.value))
          IN IF t.raised
             THEN IF IsSubclass(t.exc, "ZeroDivisionError")
                  THEN LET same == Line_eq(self, ell)
                       IN IF same.raised THEN same
                          ELSE IF same.value.b THEN Return(self) ELSE Return(None)
                  ELSE t
             ELSE Return(times_scalar(Vector_init(<<x_numerator, y_numerator>>).value,
                                      t.value))

\* The call of the function name with the arguments a.  The results for the
\* arguments the model itself draws are tabulated (F_table): computed once.
Call(name, a) ==
  CASE name = "NCmp" -> NCmp_body(a[1], a[2])
    [] name = "NAdd" -> NAdd_body(a[1], a[2])
    [] name = "NMul" -> NMul_body(a[1], a[2])
    [] name = "Carry" -> Carry_body(a[1])
    [] name = "Limbs" -> Limbs_body(a[1])
    [] name = "QDigit" -> QDigit_body(a[1], a[2])
    [] name = "NDivMod" -> NDivMod_body(a[1], a[2])
    [] name = "NDivModSmall" -> NDivModSmall_body(a[1], a[2])
    [] name = "DFix" -> DFix_body(a[1], a[2], a[3])
    [] name = "DCmp" -> DCmp_body(a[1], a[2])
    [] name = "DAdd" -> DAdd_body(a[1], a[2])
    [] name = "DMul" -> DMul_body(a[1], a[2])
    [] name = "FFromRatio" -> FFromRatio_body(a[1], a[2], a[3], a[4])
    [] name = "FFromDecimal" -> FFromDecimal_body(a[1])
    [] name = "FToDecimal" -> FToDecimal_body(a[1])
    [] name = "FSqrt" -> FSqrt_body(a[1])
    [] name = "FRound" -> FRound_body(a[1], a[2])
    [] name = "Decimal_div" -> Decimal_div_body(a[1], a[2])
    [] name = "magnitude" -> IF a[1] \in KnownVectors THEN magnitude_table[a[1]] ELSE magnitude_body(a[1])
    [] name = "is_zero" -> IF a[1] \in KnownVectors THEN is_zero_table[a[1]] ELSE is_zero_body(a[1])
    [] name = "times_scalar" -> times_scalar_body(a[1], a[2])
    [] name = "plus" -> plus_body(a[1], a[2])
    [] name = "minus" -> minus_body(a[1], a[2])
    [] name = "dot" -> dot_body(a[1], a[2])
    [] name = "is_orthogonal_to" -> is_orthogonal_to_body(a[1], a[2])
    [] name = "normalized" -> IF a[1] \in KnownVectors THEN normalized_table[a[1]] ELSE normalized_body(a[1])
    [] name = "cross" -> cross_body(a[1], a[2])
    [] name = "component_parallel_to" -> component_parallel_to_body(a[1], a[2])
    [] name = "component_orthogonal_to" -> component_orthogonal_to_body(a[1], a[2])
    [] name = "angle_with_try" -> angle_with_try_body(a[1], a[2], a[3])
    [] name = "angle_with" -> angle_with_body(a[1], a[2], a[3])
    [] name = "angle_with_prints" -> angle_with_prints_body(a[1], a[2], a[3])
    [] name = "Vector_is_parallel_to" -> IF <<a[1], a[2]>> \in KnownPairs THEN Vector_is_parallel_to_table[<<a[1], a[2]>>] ELSE Vector_is_parallel_to_body(a[1], a[2])
    [] name = "is_near_zero" -> is_near_zero_body(a[1])
    [] name = "first_nonzero_index" -> first_nonzero_index_body(a[1])
    [] name = "set_basepoint" -> set_basepoint_body(a[1], a[2], a[3])
    [] name = "Line_init" -> IF <<a[1], a[2]>> \in LineArguments THEN Line_init_table[<<a[1], a[2]>>] ELSE Line_init_body(a[1], a[2])
    [] name = "Line_init_both" -> Line_init_both_body(a[1], a[2])
    [] name = "one_over_denom" -> IF a[1] \in KnownDeterminants THEN one_over_denom_table[a[1]] ELSE one_over_denom_body(a[1])
    [] name = "Line_is_parallel_to" -> Line_is_parallel_to_body(a[1], a[2])
    [] name = "Line_eq" -> Line_eq_body(a[1], a[2])
    [] name = "intersection_with" -> intersection_with_body(a[1], a[2])

(***************************************************************************)
(* The state: the arguments drawn for a run, the objects constructed from  *)
(* them, the method called last, its outcome and what it printed.          *)
(*   Spec       : two Lines are constructed, then one method of the first  *)
(*                is called with the second.                               *)
(*   SpecVector : two Vectors, and one method of the first called with the *)
(*                second.                                                  *)
(***************************************************************************)
VARIABLES inputs, line_self, line_other, vec_self, vec_other, called, outcome, stdout

vars == <<inputs, line_self, line_other, vec_self, vec_other, called, outcome, stdout>>

Init ==
  /\ inputs \in LineArguments \X LineArguments
  /\ line_self = None
  /\ line_other = None
  /\ vec_self = None
  /\ vec_other = None
  /\ called = "none"
  /\ outcome = None
  /\ stdout = <<>>

\* line_self = Line(...); line_other = Line(...)
Construct ==
  /\ called = "none"
  /\ \E made \in {Line_init_both(inputs[1], inputs[2])} :
        /\ line_self' = made.first
        /\ line_other' = made.second
        /\ outcome' = made.outcome
  /\ called' = "Line"
  /\ UNCHANGED <<inputs, vec_self, vec_other, stdout>>

Constructed == called = "Line" /\ ~outcome.raised

\* line_self.intersection_with(line_other)
IntersectionWith ==
  /\ Constructed
  /\ outcome' = intersection_with(line_self, line_other)
  /\ called' = "intersection_with"
  /\ UNCHANGED <<inputs, line_self, line_other, vec_self, vec_other, stdout>>

\* line_self == line_other
Eq ==
  /\ Constructed
  /\ outcome' = Line_eq(line_self, line_other)
  /\ called' = "__eq__"
  /\ UNCHANGED <<inputs, line_self, line_other, vec_self, vec_other, stdout>>

\* line_self.is_parallel_to(line_other)
IsParallelTo ==
  /\ Constructed
  /\ outcome' = Line_is_parallel_to(line_self, line_other)
  /\ called' = "is_parallel_to"
  /\ UNCHANGED <<inputs, line_self, line_other, vec_self, vec_other, stdout>>

Next == Construct \/ IntersectionWith \/ Eq \/ IsParallelTo

Spec == Init /\ [][Next]_vars

InitVector ==
  /\ inputs = <<>>
  /\ line_self = None
  /\ line_other = None
  /\ vec_self \in Vectors
  /\ vec_other \in Vectors
  /\ called = "none"
  /\ outcome = None
  /\ stdout = <<>>

\* The call of a method of vec_self that prints nothing
VectorCall(name, result) ==
  /\ called = "none"
  /\ called' = name
  /\ outcome' = result
  /\ UNCHANGED <<inputs, line_self, line_other, vec_self, vec_other, stdout>>

IsZero == VectorCall("is_zero", Return(Bool(is_zero(vec_self))))
Normalized == VectorCall("normalized", normalized(vec_self))
Dot == VectorCall("dot", Return(dot(vec_self, vec_other)))
Plus == VectorCall("plus", Return(plus(vec_self, vec_other)))
Minus == VectorCall("minus", Return(minus(vec_self, vec_other)))
Cross == VectorCall("cross", cross(vec_self, vec_other))
ComponentParallelTo ==
  VectorCall("component_parallel_to", component_parallel_to(vec_self, vec_other))
ComponentOrthogonalTo ==
  VectorCall("component_orthogonal_to", component_orthogonal_to(vec_self, vec_other))
IsOrthogonalTo ==
  VectorCall("is_orthogonal_to", Return(Bool(is_orthogonal_to(vec_self, vec_other))))
VectorIsParallelTo ==
  VectorCall("is_parallel_to", Vector_is_parallel_to(vec_self, vec_other))

\* vec_self.angle_with(vec_other, in_degrees)
AngleWith ==
  /\ called = "none"
  /\ \E in_degrees \in BOOLEAN :
       /\ outcome' = angle_with(vec_self, vec_other, in_degrees)
       /\ stdout' = angle_with_prints(vec_self, vec_other, in_degrees)
  /\ called' = "angle_with"
  /\ UNCHANGED <<inputs, line_self, line_other, vec_self, vec_other>>

NextVector ==
  \/ IsZero \/ Normalized \/ Dot \/ Plus \/ Minus \/ Cross
  \/ ComponentParallelTo \/ ComponentOrthogonalTo \/ IsOrthogonalTo
  \/ VectorIsParallelTo \/ AngleWith

SpecVector == InitVector /\ [][NextVector]_vars

(***************************************************************************)
(* The claims about class Line, checked under Spec.                        *)
(***************************************************************************)
SelfNormal == line_self.normal_vector.coordinates
OtherNormal == line_other.normal_vector.coordinates

\* round(A*D - B*C, 10) is exactly zero
DeterminantRoundsToZero ==
  FIsZero(FRound(FFromDecimal(Determinant(SelfNormal, OtherNormal)), 10))

\* C1: when the rounded determinant of the two lines is zero,
\* intersection_with does not raise; it returns self when the two lines are
\* equal by Line equality and None otherwise.
C1_IntersectionOfParallelLines ==
  (called = "intersection_with" /\ DeterminantRoundsToZero) =>
    /\ ~outcome.raised
    /\ LET same == Line_eq(line_self, line_other)
       IN /\ ~same.raised
          /\ outcome.value = IF same.value.b THEN line_self ELSE None

BothNormalsNonzero ==
  ~is_zero(line_self.normal_vector) /\ ~is_zero(line_other.normal_vector)

\* The vector from other.basepoint to self.basepoint is orthogonal to
\* self.normal_vector
BasepointsOnOneLine ==
  /\ line_self.basepoint # None
  /\ line_other.basepoint # None
  /\ LET difference == [i \in 1..2 |-> DSub(line_self.basepoint.coordinates[i],
                                             line_other.basepoint.coordinates[i])]
     IN DLess(DAbs(DAdd(DMul(difference[1], SelfNormal[1]),
                        DMul(difference[2], SelfNormal[2]))),
              ToleranceExact)

\* C2: for two lines with nonzero normal vectors, Line equality returns a
\* boolean: False when the lines are not parallel, and when they are
\* parallel True exactly when the difference of the basepoints is
\* orthogonal to self's normal vector.
C2_EqualityOfNonzeroLines ==
  (called = "__eq__" /\ BothNormalsNonzero) =>
    /\ ~outcome.raised
    /\ outcome.value.cls = "bool"
    /\ outcome.value.b = (/\ Line_is_parallel_to(line_self, line_other).value.b
                          /\ BasepointsOnOneLine)

\* C3: when the rounded determinant det is not zero, intersection_with
\* returns a Vector with the coordinates ((D*k1 - B*k2)/det,
\* (-C*k1 + A*k2)/det).
C3_IntersectionPoint ==
  (called = "intersection_with" /\ ~DeterminantRoundsToZero) =>
    /\ ~outcome.raised
    /\ outcome.value.cls = "Vector"
    /\ LET k1 == line_self.constant_term
           k2 == line_other.constant_term
           det == FToDecimal(FRound(FFromDecimal(Determinant(SelfNormal, OtherNormal)), 10))
       IN outcome.value.coordinates =
            <<DDiv(DSub(DMul(OtherNormal[2], k1), DMul(SelfNormal[2], k2)), det),
              DDiv(DAdd(DMul(DNeg(OtherNormal[1]), k1), DMul(SelfNormal[1], k2)), det)>>

\* The coefficient k of self's normal vector has absolute value >= 1e-10
CoefficientCounts(k) == ~DLess(DAbs(SelfNormal[k]), ToleranceExact)
FirstCoefficient ==
  CHOOSE k \in 1..2 : CoefficientCounts(k) /\ \A j \in 1..(k - 1) : ~CoefficientCounts(j)

\* basepoint is None iff no coefficient counts; otherwise it is the
\* 2-dimensional Vector with constant_term / coefficient at the index of the
\* first coefficient that counts and 0 at the other index
BasepointByFirstCoefficient ==
  IF \A k \in 1..2 : ~CoefficientCounts(k) THEN line_self.basepoint = None
  ELSE /\ line_self.basepoint # None
       /\ line_self.basepoint.cls = "Vector"
       /\ line_self.basepoint.dimension = 2
       /\ \A k \in 1..2 :
            line_self.basepoint.coordinates[k] =
              IF k = FirstCoefficient
              THEN DDiv(line_self.constant_term, SelfNormal[k])
              ELSE DZero

\* normal_vector . basepoint
NormalDotBasepoint == dot(line_self.normal_vector, line_self.basepoint)

\* constant_term / coefficient is a decimal of at most Prec digits: the
\* quotient times the coefficient is the constant term, without rounding
QuotientIsExact ==
  LET quotient == line_self.basepoint.coordinates[FirstCoefficient]
      coefficient == SelfNormal[FirstCoefficient]
  IN /\ Len(line_self.constant_term.coef) <= Prec
     /\ DCanon((quotient.sign + coefficient.sign) % 2,
               NMul(quotient.coef, coefficient.coef),
               quotient.exp + coefficient.exp) = line_self.constant_term

ConstantTermsNear ==
  DLess(DAbs(DSub(line_self.constant_term, line_other.constant_term)), ToleranceExact)

\* C5: when self's normal vector is zero, Line equality returns True iff the
\* other normal vector is zero too and the constant terms differ by less
\* than 1e-10; when only the other normal vector is zero it returns False.
C5_EqualityWithZeroNormal ==
  called = "__eq__" =>
    /\ is_zero(line_self.normal_vector) =>
         outcome = Return(Bool(is_zero(line_other.normal_vector) /\ ConstantTermsNear))
    /\ (~is_zero(line_self.normal_vector) /\ is_zero(line_other.normal_vector)) =>
         outcome = Return(Bool(FALSE))

\* Two lines with zero normal vectors and the constant terms 0 and 1E-12
\* have been compared, and are equal
C5_ZeroLinesComparedEqual ==
  /\ called = "__eq__"
  /\ is_zero(line_self.normal_vector)
  /\ is_zero(line_other.normal_vector)
  /\ line_self.constant_term = DZero
  /\ line_other.constant_term = DLit(1, 0 - 12)
  /\ outcome = Return(Bool(TRUE))

\* C10: every constructed Line whose normal vector is not zero by is_zero
\* has a basepoint.
C10_NonzeroNormalHasBasepoint ==
  (called = "Line" /\ ~outcome.raised) =>
    (~is_zero(line_self.normal_vector) => line_self.basepoint # None)

(***************************************************************************)
(* The claims about class Vector, checked under SpecVector.                *)
(***************************************************************************)
IsExactZeroVector(u) == \A i \in 1..Len(u.coordinates) : DIsZero(u.coordinates[i])

\* C6: with a basis that is the exact zero vector, component_parallel_to
\* raises 'No unique parallel component' and component_orthogonal_to raises
\* 'No unique orthogonal component'.
C6_ComponentsAlongZeroBasis ==
  /\ (called = "component_parallel_to" /\ IsExactZeroVector(vec_other)) =>
       (outcome.raised /\ outcome.msg = NO_UNIQUE_PARALLEL_COMPONENT_MSG)
  /\ (called = "component_orthogonal_to" /\ IsExactZeroVector(vec_other)) =>
       (outcome.raised /\ outcome.msg = NO_UNIQUE_ORTHOGONAL_COMPONENT_MSG)

\* C7: when self or v is the exact zero vector, angle_with raises 'Cannot
\* compute an angle with the zero vector'; it returns nothing.
C7_AngleWithZeroVector ==
  (called = "angle_with" /\ (IsExactZeroVector(vec_self) \/ IsExactZeroVector(vec_other))) =>
    (outcome.raised /\ outcome.msg = "Cannot compute an angle with the zero vector")

\* (y1*z2 - y2*z1, -(x1*z2 - x2*z1), x1*y2 - x2*y1)
CrossFormula(p, q) ==
  <<DSub(DMul(p[2], q[3]), DMul(q[2], p[3])),
    DNeg(DSub(DMul(p[1], q[3]), DMul(q[1], p[3]))),
    DSub(DMul(p[1], q[2]), DMul(q[1], p[2]))>>

\* C8: for two vectors of the same dimension d, cross returns the Vector of
\* the formula when d = 3, the formula of the two vectors with a zero third
\* coordinate appended when d = 2, and raises 'Only defined in two or three
\* dimensions' for any other d.
C8_CrossByDimension ==
  (called = "cross" /\ vec_self.dimension = vec_other.dimension) =>
    IF vec_self.dimension = 3
    THEN outcome = Vector_init(CrossFormula(vec_self.coordinates, vec_other.coordinates))
    ELSE IF vec_self.dimension = 2
    THEN outcome = Vector_init(CrossFormula(vec_self.coordinates \o <<DZero>>,
                                            vec_other.coordinates \o <<DZero>>))
    ELSE outcome.raised /\ outcome.msg = ONLY_DEFINED_IN_TWO_THREE_DIMS_MSG

\* C9: dot, plus and minus of two vectors of differing dimension raise an
\* error; they return no result of a truncated prefix.
C9_DimensionMismatchRaises ==
  (called \in {"dot", "plus", "minus"} /\ vec_self.dimension # vec_other.dimension) =>
    outcome.raised

====
